---------------------------- MODULE Spec2Model ----------------------------
(***************************************************************************)
(* Elliptic Curve Schnorr Signature Algorithm of btclib (btclib/ecssa.py): *)
(* ecssa_sign, ecssa_verify / _ecssa_verify, _ecssa_pubkey_recovery,      *)
(* to_ssasig and ecssa_batch_validation with its Bos-Coster loop.          *)
(*                                                                         *)
(* The functions are pure; the state is the curve and hash function the    *)
(* calls are made with, the most recent call (its arguments and outcome)   *)
(* and the position of a running batch validation.  secp256k1 does not fit *)
(* TLC's integers, so the calls run on the low cardinality curves the      *)
(* repository's tests use (tests/test_ecssa.py, test_low_cardinality).     *)
(***************************************************************************)
EXTENDS Integers, Sequences, FiniteSets, Bags, TLC

(***************************************************************************)
(* Bounds of the model.                                                    *)
(***************************************************************************)
\* messages are the digests 0..MaxMsg, as in test_low_cardinality's H
MaxMsg == 1
\* the hash functions hf the calls are made with: Salts 0..MaxSalt
MaxSalt == 1
\* a batch has at most MaxBatch entries
MaxBatch == 2
\* Python integers are unbounded; a heap weight above MaxWeight leaves the model
MaxWeight == 12

(***************************************************************************)
(* Program constants.                                                      *)
(***************************************************************************)
\* hf().digest_size of the default hf = sha256
HashLen == 32
\* the width ecssa_batch_validation encodes r with
BatchRLen == 32

(***************************************************************************)
(* btclib.numbertheory                                                     *)
(***************************************************************************)
\* mod_inv(a, m): the inverse of a modulo the prime m
mod_inv(a, m) == CHOOSE x \in 1..(m - 1) : (a * x) % m = 1

\* legendre_symbol(a, p): 1 for a non-zero square, 0 for 0, -1 otherwise
legendre_symbol(a, p) ==
    IF a % p = 0 THEN 0
    ELSE IF \E x \in 1..(p - 1) : (x * x) % p = a % p THEN 1
    ELSE -1

(***************************************************************************)
(* btclib.ec: curves y^2 = x^3 + a*x + b over GF(p), generator G of prime  *)
(* order n.  The point at infinity is Inf (its y is 0).                   *)
(***************************************************************************)
Inf == <<1, 0>>

ec11_7 == [name |-> "ec11_7", p |-> 11, a |-> 2, b |-> 7, G |-> <<6, 9>>, n |-> 7]
ec13_11 == [name |-> "ec13_11", p |-> 13, a |-> 7, b |-> 6, G |-> <<1, 1>>, n |-> 11]

low_card_curves == {ec11_7, ec13_11}

pIsThreeModFour(c) == c.p % 4 = 3

\* number of bytes of x >= 0 (at least one for 0 .. 255)
RECURSIVE ByteLen(_)
ByteLen(x) == IF x < 256 THEN 1 ELSE 1 + ByteLen(x \div 256)

\* ec.bytesize: the bytes of the field prime
bytesize(c) == ByteLen(c.p)

_y2(c, x) == (x * x * x + c.a * x + c.b) % c.p

\* a point of the curve (Inf included)
isOnCurve(c, P) ==
    \/ P = Inf
    \/ /\ P[1] \in 0..(c.p - 1)
       /\ P[2] \in 0..(c.p - 1)
       /\ (P[2] * P[2]) % c.p = _y2(c, P[1])

opposite(c, P) == IF P = Inf THEN Inf ELSE <<P[1], (c.p - P[2]) % c.p>>

\* affine point addition
pointAdd(c, P, Q) ==
    IF P = Inf THEN Q
    ELSE IF Q = Inf THEN P
    ELSE IF P[1] = Q[1] /\ (P[2] + Q[2]) % c.p = 0 THEN Inf
    ELSE LET lam == IF P = Q
                    THEN ((3 * P[1] * P[1] + c.a) * mod_inv((2 * P[2]) % c.p, c.p)) % c.p
                    ELSE ((Q[2] - P[2]) * mod_inv((Q[1] - P[1]) % c.p, c.p)) % c.p
             x3 == (lam * lam - P[1] - Q[1]) % c.p
         IN  <<x3, (lam * (P[1] - x3) - P[2]) % c.p>>

\* pointMult(ec, k, P): k*P, the scalar taken modulo n
RECURSIVE kTimes(_, _, _)
kTimes(c, k, P) == IF k = 0 THEN Inf ELSE pointAdd(c, kTimes(c, k - 1, P), P)

pointMult(c, k, P) == kTimes(c, k % c.n, P)

\* DblScalarMult(ec, u, P, v, Q): u*P + v*Q
DblScalarMult(c, u, P, v, Q) == pointAdd(c, pointMult(c, u, P), pointMult(c, v, Q))


(***************************************************************************)
(* Byte strings are sequences of bytes.                                    *)
(***************************************************************************)
\* byte j (from the right) of x >= 0; TLC's integers have four bytes
ByteOf(x, j) ==
    IF j = 0 THEN x % 256
    ELSE IF j = 1 THEN (x \div 256) % 256
    ELSE IF j = 2 THEN (x \div 65536) % 256
    ELSE IF j = 3 THEN (x \div 16777216) % 256
    ELSE 0

\* x.to_bytes(len, byteorder="big"), for 0 <= x < 256^len
to_bytes(x, len) == [i \in 1..len |-> ByteOf(x, len - i)]

\* int.from_bytes(bs, byteorder="big"), for a value that fits TLC's integers
int_from_bytes(bs) ==
    LET B(j) == IF j < Len(bs) THEN bs[Len(bs) - j] ELSE 0
    IN  B(0) + 256 * B(1) + 65536 * B(2) + 16777216 * B(3)

(***************************************************************************)
(* The hash function hf.  sha256 is a collaborator of the module; the      *)
(* calls are made with one of the functions hf \in Salts, each a keyed     *)
(* hash that returns a digest of HashLen bytes and depends on every byte   *)
(* and on the length of its input.                                         *)
(***************************************************************************)
Salts == 0..MaxSalt

\* the hash of bytes lo .. hi of bs, the two halves hashed and combined
RECURSIVE HashRange(_, _, _, _)
HashRange(salt, bs, lo, hi) ==
    IF lo > hi THEN (7 * salt + 1) % 251
    ELSE IF lo = hi THEN (bs[lo] + 3 * salt + 1) % 251
    ELSE LET mid == (lo + hi) \div 2
         IN  (31 * HashRange(salt, bs, lo, mid) + 17 * HashRange(salt, bs, mid + 1, hi)
              + salt + 5) % 251

\* hf(bs).digest()
digest(hf, bs) == to_bytes((HashRange(hf, bs, 1, Len(bs)) + 13 * Len(bs)) % 251, HashLen)

(***************************************************************************)
(* btclib.ecsigutils, btclib.ec, btclib.rfc6979: the conversions           *)
(***************************************************************************)
\* bytes_from_hlenbytes(m, hf) returns m, and raises unless m has the digest's length
hlenbytes_ok(m) == Len(m) = HashLen

\* int_from_hlenbytes(ebytes, ec, hf): the digest as an integer modulo n
int_from_hlenbytes(ebytes, c) == int_from_bytes(ebytes) % c.n

\* int_from_Scalar(ec, d)
int_from_Scalar(c, d) == d % c.n

\* bytes_from_Point(ec, Q, True): the compressed encoding 02|03 || x
bytes_from_Point(c, Q) ==
    IF Q = Inf THEN <<0>>
    ELSE <<2 + (Q[2] % 2)>> \o to_bytes(Q[1], bytesize(c))

\* to_Point(ec, P) returns P, and raises unless P is a point of the curve
to_Point_ok(c, P) == isOnCurve(c, P)

\* ec.y(x) raises unless x is a coordinate with a y on the curve
y_exists(c, x) == x \in 0..(c.p - 1) /\ legendre_symbol(_y2(c, x), c.p) = 1

\* ec.y(x): the square root mod_sqrt returns, a quadratic residue when p = 3 (mod 4)
ec_y(c, x) ==
    LET roots == {y \in 1..(c.p - 1) : (y * y) % c.p = _y2(c, x)}
    IN  IF pIsThreeModFour(c)
        THEN CHOOSE y \in roots : legendre_symbol(y, c.p) = 1
        ELSE CHOOSE y \in roots : \A z \in roots : y <= z

\* ec.yQuadraticResidue(x, True) raises unless p = 3 (mod 4) and x has a y
yQuadraticResidue_ok(c, x) == pIsThreeModFour(c) /\ y_exists(c, x)

yQuadraticResidue(c, x) ==
    LET root == ec_y(c, x)
    IN  IF legendre_symbol(root, c.p) = 1 THEN root ELSE c.p - root

\* rfc6979(d, m, ec, hf): the deterministic nonce, in 1 .. n-1
rfc6979(d, m, c, hf) ==
    1 + (int_from_bytes(digest(hf, to_bytes(d, bytesize(c)) \o m)) % (c.n - 1))

\* the messages: digests i.to_bytes(hlen, 'big') and one string that is a byte short
Msg(i) == to_bytes(i, HashLen)

ShortMsg == to_bytes(0, HashLen - 1)

Msgs == {Msg(i) : i \in 0..MaxMsg}

(***************************************************************************)
(* btclib.ecssa.  A call's outcome is a record: err names the error the    *)
(* call raised ("" when it returned) and val is the value it returned.     *)
(***************************************************************************)
\* the Python exception class of each error
ExcType(err) == IF err = "BadLength" THEN "TypeError" ELSE "ValueError"

\* hf(bytes(r) || bytes(Q) || m).digest(), r encoded at the given width
hash_rQm(c, hf, width, r, Q, m) ==
    digest(hf, to_bytes(r, width) \o bytes_from_Point(c, Q) \o m)

\* to_ssasig with "0 <= s <= ec.n" in place of "0 <= s < ec.n"
to_ssasig_s_upto_n(ssasig, c) ==
    IF Len(ssasig) # 2 THEN [err |-> "BadLength", val |-> <<>>]
    ELSE IF ~y_exists(c, ssasig[1]) THEN [err |-> "NoY", val |-> <<>>]
    ELSE IF ~(0 <= ssasig[2] /\ ssasig[2] <= c.n) THEN [err |-> "BadS", val |-> <<>>]
    ELSE [err |-> "", val |-> <<ssasig[1], ssasig[2]>>]

\* to_ssasig without the call ec.y(r)
to_ssasig_no_y(ssasig, c) ==
    IF Len(ssasig) # 2 THEN [err |-> "BadLength", val |-> <<>>]
    ELSE IF ~(0 <= ssasig[2] /\ ssasig[2] < c.n) THEN [err |-> "BadS", val |-> <<>>]
    ELSE [err |-> "", val |-> <<ssasig[1], ssasig[2]>>]

\* to_ssasig(ssasig, ec)
to_ssasig(ssasig, c) ==
    IF Len(ssasig) # 2 THEN [err |-> "BadLength", val |-> <<>>]
    ELSE IF ~y_exists(c, ssasig[1]) THEN [err |-> "NoY", val |-> <<>>]
    ELSE IF ~(0 <= ssasig[2] /\ ssasig[2] < c.n) THEN [err |-> "BadS", val |-> <<>>]
    ELSE [err |-> "", val |-> <<ssasig[1], ssasig[2]>>]

\* ecssa_sign without "k = ec.n - k": the nonce is used as it is
ecssa_sign_no_parity_fix(m, d, k, c, hf) ==
    IF ~pIsThreeModFour(c) THEN [err |-> "CurveUnsupported", val |-> <<>>]
    ELSE IF ~hlenbytes_ok(m) THEN [err |-> "BadMessage", val |-> <<>>]
    ELSE LET d1 == int_from_Scalar(c, d) IN
    IF d1 = 0 THEN [err |-> "InvalidKey", val |-> <<>>]
    ELSE LET Q  == pointMult(c, d1, c.G)
             k1 == IF k = <<>> THEN rfc6979(d1, m, c, hf) ELSE int_from_Scalar(c, k[1])
         IN
    IF k1 = 0 THEN [err |-> "InvalidNonce", val |-> <<>>]
    ELSE LET R  == pointMult(c, k1, c.G)
             e  == int_from_hlenbytes(hash_rQm(c, hf, bytesize(c), R[1], Q, m), c)
             s  == (k1 + e * d1) % c.n
         IN  [err |-> "", val |-> <<R[1], s>>]

\* ecssa_sign without "if k == 0: raise ValueError"
ecssa_sign_no_nonce_check(m, d, k, c, hf) ==
    IF ~pIsThreeModFour(c) THEN [err |-> "CurveUnsupported", val |-> <<>>]
    ELSE IF ~hlenbytes_ok(m) THEN [err |-> "BadMessage", val |-> <<>>]
    ELSE LET d1 == int_from_Scalar(c, d) IN
    IF d1 = 0 THEN [err |-> "InvalidKey", val |-> <<>>]
    ELSE LET Q  == pointMult(c, d1, c.G)
             k1 == IF k = <<>> THEN rfc6979(d1, m, c, hf) ELSE int_from_Scalar(c, k[1])
             R  == pointMult(c, k1, c.G)
             k2 == IF legendre_symbol(R[2], c.p) # 1 THEN c.n - k1 ELSE k1
             e  == int_from_hlenbytes(hash_rQm(c, hf, bytesize(c), R[1], Q, m), c)
             s  == (k2 + e * d1) % c.n
         IN  [err |-> "", val |-> <<R[1], s>>]

\* ecssa_sign(m, d, k, ec, hf); k is <<>> for None
ecssa_sign(m, d, k, c, hf) ==
    IF ~pIsThreeModFour(c) THEN [err |-> "CurveUnsupported", val |-> <<>>]
    ELSE IF ~hlenbytes_ok(m) THEN [err |-> "BadMessage", val |-> <<>>]
    ELSE LET d1 == int_from_Scalar(c, d) IN
    IF d1 = 0 THEN [err |-> "InvalidKey", val |-> <<>>]
    ELSE LET Q  == pointMult(c, d1, c.G)
             k1 == IF k = <<>> THEN rfc6979(d1, m, c, hf) ELSE int_from_Scalar(c, k[1])
         IN
    IF k1 = 0 THEN [err |-> "InvalidNonce", val |-> <<>>]
    ELSE LET R  == pointMult(c, k1, c.G)
             k2 == IF legendre_symbol(R[2], c.p) # 1 THEN c.n - k1 ELSE k1
             e  == int_from_hlenbytes(hash_rQm(c, hf, bytesize(c), R[1], Q, m), c)
             s  == (k2 + e * d1) % c.n
         IN  [err |-> "", val |-> <<R[1], s>>]

\* the test without "legendre_symbol(R[1], ec._p) != 1": every y passes
jacobi_unchecked(c, R) == TRUE

\* jacobi(y(R)) = 1, the test of _ecssa_verify on R = sG - eP
jacobi_is_one(c, R) == legendre_symbol(R[2], c.p) = 1

\* _ecssa_verify(ssasig, m, P, ec, hf); arith tells whether sG - eP was computed
_ecssa_verify(ssasig, m, P, c, hf) ==
    IF ~pIsThreeModFour(c) THEN [err |-> "CurveUnsupported", val |-> FALSE, arith |-> FALSE]
    ELSE LET sig == to_ssasig(ssasig, c) IN
    IF sig.err # "" THEN [err |-> sig.err, val |-> FALSE, arith |-> FALSE]
    ELSE IF ~hlenbytes_ok(m) THEN [err |-> "BadMessage", val |-> FALSE, arith |-> FALSE]
    ELSE IF ~to_Point_ok(c, P) THEN [err |-> "InvalidPoint", val |-> FALSE, arith |-> FALSE]
    ELSE LET r == sig.val[1]
             s == sig.val[2]
             e == int_from_hlenbytes(hash_rQm(c, hf, bytesize(c), r, P, m), c)
             R == DblScalarMult(c, s, c.G, -e, P)
         IN
    IF R[2] = 0 THEN [err |-> "Infinite", val |-> FALSE, arith |-> TRUE]
    ELSE IF ~jacobi_is_one(c, R)
         THEN [err |-> "NotResidue", val |-> FALSE, arith |-> TRUE]
    ELSE [err |-> "", val |-> (R[1] = r), arith |-> TRUE]

\* "except ValueError" in place of "except Exception"
IsValueError(err) == ExcType(err) = "ValueError"

\* the errors "except Exception" catches
IsException(err) == ExcType(err) \in {"ValueError", "TypeError"}

\* ecssa_verify(ssasig, m, Q, ec, hf): the try/except wrapper; arith is _ecssa_verify's
ecssa_verify(ssasig, m, Q, c, hf) ==
    LET v == _ecssa_verify(ssasig, m, Q, c, hf)
    IN  IF v.err = "" THEN [err |-> "", val |-> v.val, arith |-> v.arith]
        ELSE IF IsException(v.err) THEN [err |-> "", val |-> FALSE, arith |-> v.arith]
        ELSE [err |-> v.err, val |-> FALSE, arith |-> v.arith]

\* K with the other root: ec.y(r) negated where yQuadraticResidue returns it
recovery_K_other_root(c, r) == <<r, c.p - yQuadraticResidue(c, r)>>

\* K = (r, ec.yQuadraticResidue(r, True))
recovery_K(c, r) == <<r, yQuadraticResidue(c, r)>>

\* _ecssa_pubkey_recovery(ssasig, ebytes, ec, hf)
_ecssa_pubkey_recovery(ssasig, ebytes, c, hf) ==
    IF Len(ebytes) # HashLen THEN [err |-> "WrongSize", val |-> Inf, arith |-> FALSE]
    ELSE LET sig == to_ssasig(ssasig, c) IN
    IF sig.err # "" THEN [err |-> sig.err, val |-> Inf, arith |-> FALSE]
    ELSE IF ~yQuadraticResidue_ok(c, sig.val[1])
         THEN [err |-> "CurveUnsupported", val |-> Inf, arith |-> FALSE]
    ELSE LET r == sig.val[1]
             s == sig.val[2]
             K == recovery_K(c, r)
             e == int_from_hlenbytes(ebytes, c)
         IN
    IF e = 0 THEN [err |-> "ZeroChallenge", val |-> Inf, arith |-> FALSE]
    ELSE LET e1 == mod_inv(e, c.n)
             Q  == DblScalarMult(c, e1 * s, c.G, -e1, K)
         IN
    IF Q[2] = 0 THEN [err |-> "RecoveryFailed", val |-> Inf, arith |-> TRUE]
    ELSE [err |-> "", val |-> Q, arith |-> TRUE]

(***************************************************************************)
(* The state.                                                              *)
(***************************************************************************)
VARIABLES
    ec,     \* the curve the calls are made with
    hf,     \* the hash function the calls are made with
    op,     \* the most recent call: "none", "sign", "verify", "recover", "parse", "batch"
    arg,    \* its arguments
    res,    \* its outcome
    bpc,    \* ecssa_batch_validation: "idle", "prep", "loop", "done", "raised", "beyond"
    bin,    \* its entries: sig[i], ms[i], Q[i], a[i]
    bi,     \* the entry the first loop is at
    mult,   \* mult
    heap,   \* boscoster: the bag of pairs (factor, point)
    pass,   \* the passes the Bos-Coster loop has made, modulo 2
    barith  \* whether the batch has added or multiplied curve points

vars == <<ec, hf, op, arg, res, bpc, bin, bi, mult, heap, pass, barith>>

NoArg == [sig |-> <<>>, m |-> <<>>, Q |-> Inf, d |-> 0, k |-> <<>>, ebytes |-> <<>>, kind |-> ""]

NoRes == [err |-> "", val |-> FALSE, arith |-> FALSE]

\* no batch validation is running
BatchIdle == bpc \in {"idle", "done", "raised", "beyond"}

ResetBatch ==
    /\ bpc' = "idle"
    /\ bin' = <<>>
    /\ bi' = 0
    /\ mult' = 0
    /\ heap' = EmptyBag
    /\ pass' = 0
    /\ barith' = FALSE

(***************************************************************************)
(* The inputs of the calls.                                                *)
(***************************************************************************)
\* private keys: 0 and n are the keys that reduce to 0
Keys(c) == 0..c.n

\* nonces: None, and the scalars 0 .. n
Nonces(c) == {<<>>} \cup {<<k>> : k \in 0..c.n}

\* messages, one of them of the wrong length
MsgInputs == Msgs \cup {ShortMsg}

\* signatures: every pair around the valid ranges, and one and three components
SigInputs(c) ==
    {<<r, s>> : r \in (-1)..c.p, s \in (-1)..c.n} \cup {<<c.G[1]>>, <<c.G[1], 1, 0>>}

\* public keys: every point of the group, and a point off the curve
PointInputs(c) ==
    {pointMult(c, k, c.G) : k \in 0..(c.n - 1)} \cup {<<c.G[1], (c.G[2] + 1) % c.p>>}

\* challenge digests: the digests of small integers, and one of the wrong size
DigestInputs(c) == {to_bytes(i, HashLen) : i \in 0..c.n} \cup {ShortMsg}

Init ==
    /\ ec \in low_card_curves
    /\ hf \in Salts
    /\ op = "none"
    /\ arg = NoArg
    /\ res = NoRes
    /\ bpc = "idle"
    /\ bin = <<>>
    /\ bi = 0
    /\ mult = 0
    /\ heap = EmptyBag
    /\ pass = 0
    /\ barith = FALSE

(***************************************************************************)
(* The calls of the signature core.                                        *)
(***************************************************************************)
\* ecssa_sign(m, d, k, ec, hf)
Sign(m, d, k) ==
    /\ op = "none"
    /\ op' = "sign"
    /\ arg' = [NoArg EXCEPT !.m = m, !.d = d, !.k = k]
    /\ res' = ecssa_sign(m, d, k, ec, hf)
    /\ ResetBatch
    /\ UNCHANGED <<ec, hf>>

\* ecssa_verify(sig, m, d*G, ec, hf) of the signature ecssa_sign just returned
\* for (m, d), as it is ("genuine") or with s negated ("negated")
VerifySigned(kind) ==
    /\ BatchIdle
    /\ op = "sign"
    /\ res.err = ""
    /\ LET sig == IF kind = "negated"
                  THEN <<res.val[1], (ec.n - res.val[2]) % ec.n>>
                  ELSE res.val
           Q   == pointMult(ec, arg.d, ec.G)
       IN  /\ arg' = [arg EXCEPT !.sig = sig, !.Q = Q, !.kind = kind]
           /\ res' = ecssa_verify(sig, arg.m, Q, ec, hf)
    /\ op' = "verify"
    /\ ResetBatch
    /\ UNCHANGED <<ec, hf>>

\* ecssa_verify(ssasig, m, Q, ec, hf) of any signature, message and public key
VerifyAny(ssasig, m, Q) ==
    /\ op = "none"
    /\ op' = "verify"
    /\ arg' = [NoArg EXCEPT !.sig = ssasig, !.m = m, !.Q = Q, !.kind = "any"]
    /\ res' = ecssa_verify(ssasig, m, Q, ec, hf)
    /\ ResetBatch
    /\ UNCHANGED <<ec, hf>>

\* _ecssa_pubkey_recovery(sig, e, ec, hf) of the signature ecssa_sign just returned,
\* e the digest hf(bytes(r) || bytes(d*G) || m) as in test_ecssa_bip_tv1
RecoverSigned ==
    /\ BatchIdle
    /\ op = "sign"
    /\ res.err = ""
    /\ LET Q == pointMult(ec, arg.d, ec.G)
           e == hash_rQm(ec, hf, bytesize(ec), res.val[1], Q, arg.m)
       IN  /\ arg' = [arg EXCEPT !.sig = res.val, !.Q = Q, !.ebytes = e, !.kind = "genuine"]
           /\ res' = _ecssa_pubkey_recovery(res.val, e, ec, hf)
    /\ op' = "recover"
    /\ ResetBatch
    /\ UNCHANGED <<ec, hf>>

\* _ecssa_pubkey_recovery(ssasig, ebytes, ec, hf) of any signature and digest
RecoverAny(ssasig, ebytes) ==
    /\ op = "none"
    /\ op' = "recover"
    /\ arg' = [NoArg EXCEPT !.sig = ssasig, !.ebytes = ebytes, !.kind = "any"]
    /\ res' = _ecssa_pubkey_recovery(ssasig, ebytes, ec, hf)
    /\ ResetBatch
    /\ UNCHANGED <<ec, hf>>

\* to_ssasig(ssasig, ec)
Parse(ssasig) ==
    /\ op = "none"
    /\ op' = "parse"
    /\ arg' = [NoArg EXCEPT !.sig = ssasig, !.kind = "any"]
    /\ res' = to_ssasig(ssasig, ec)
    /\ ResetBatch
    /\ UNCHANGED <<ec, hf>>

(***************************************************************************)
(* ecssa_batch_validation(sig, ms, Q, a, ec, hf)                           *)
(***************************************************************************)
\* the weights a[i]: negative, positive, and the multiple n of the group order
Weights(c) == {-1, 1, 2, c.n}

\* the private keys of the batch's signers
BatchKeys(c) == {1, 3}

\* an entry whose signature ecssa_sign returned for the entry's message and key
GenuineEntries(c, h) ==
    {[sig |-> ecssa_sign(m, d, <<>>, c, h).val, m |-> m, Q |-> pointMult(c, d, c.G),
      a |-> a, kind |-> "genuine"] :
        m \in Msgs, d \in {x \in BatchKeys(c) : pIsThreeModFour(c)}, a \in Weights(c)}

\* malformed signatures: one component, an r with no y, an s that is n
MalformedSigs(c) ==
    {<<c.G[1]>>} \cup
    {<<CHOOSE r \in 0..(c.p - 1) : ~y_exists(c, r), 1>>} \cup
    {<<c.G[1], c.n>>}

\* signatures ecssa_sign returned for a (message, public key) pair other than en's
OtherSigs(c, h, en) ==
    {ecssa_sign(m, d, <<>>, c, h).val :
        <<m, d>> \in {md \in Msgs \X BatchKeys(c) :
                        md[1] # en.m \/ pointMult(c, md[2], c.G) # en.Q}}

\* the batch, and the batch with one entry's signature replaced or malformed
Variants(c, h, b) ==
    {b} \cup
    UNION {{[b EXCEPT ![j] = [b[j] EXCEPT !.sig = sg, !.kind = "other"]] :
               sg \in OtherSigs(c, h, b[j])} : j \in DOMAIN b} \cup
    UNION {{[b EXCEPT ![j] = [b[j] EXCEPT !.sig = sg, !.kind = "malformed"]] :
               sg \in MalformedSigs(c)} : j \in DOMAIN b}

\* the call: sig, ms, Q, a are the columns of entries
BatchStart(entries) ==
    /\ op = "none"
    /\ op' = "batch"
    /\ arg' = NoArg
    /\ res' = NoRes
    /\ bin' = entries
    /\ bi' = 1
    /\ mult' = 0
    /\ heap' = EmptyBag
    /\ pass' = 0
    /\ barith' = FALSE
    /\ bpc' = IF Len(entries) = 0 THEN "loop" ELSE "prep"
    /\ UNCHANGED <<ec, hf>>

\* one pass of "for i in range(u)": entry bi is parsed, hashed and put in the lists
BatchPrep ==
    /\ bpc = "prep"
    /\ LET en  == bin[bi]
           sig == to_ssasig(en.sig, ec)
       IN  IF sig.err # ""
           THEN /\ bpc' = "raised"
                /\ res' = [err |-> sig.err, val |-> FALSE, arith |-> barith]
                /\ UNCHANGED <<bi, mult, heap>>
           ELSE LET r == sig.val[1]
                    s == sig.val[2]
                    e == int_from_hlenbytes(hash_rQm(ec, hf, BatchRLen, r, en.Q, en.m), ec)
                    y == ec_y(ec, r)
                IN  /\ mult' = mult + ((en.a * s) % ec.n)
                    /\ heap' = heap (+) SetToBag({<<en.a, <<r, y>>>>})
                                    (+) SetToBag({<<(en.a * e) % ec.n, en.Q>>})
                    /\ bi' = bi + 1
                    /\ bpc' = IF bi = Len(bin) THEN "loop" ELSE "prep"
                    /\ res' = res
    /\ UNCHANGED <<ec, hf, op, arg, bin, pass, barith>>

\* the entries heappop may return: those of the largest factor
Largest(h) == {x \in BagToSet(h) : \A z \in BagToSet(h) : z[1] <= x[1]}

\* a pass that pushes (a2, K2) back without "K2 = ec._addJacobian(K1, K2)"
BatchLoop_no_add ==
    /\ bpc = "loop"
    /\ BagCardinality(heap) > 1
    /\ \E aK1 \in Largest(heap) :
         LET h1 == heap (-) SetToBag({aK1})
         IN  \E aK2 \in Largest(h1) :
               LET h2 == h1 (-) SetToBag({aK2})
                   a1 == aK1[1] - aK2[1]
                   h3 == IF a1 > 0 THEN h2 (+) SetToBag({<<a1, aK1[2]>>}) ELSE h2
               IN  IF a1 > MaxWeight
                   THEN /\ bpc' = "beyond"
                        /\ UNCHANGED heap
                   ELSE /\ bpc' = "loop"
                        /\ heap' = h3 (+) SetToBag({<<aK2[1], aK2[2]>>})
    /\ pass' = 1 - pass
    /\ barith' = TRUE
    /\ UNCHANGED <<ec, hf, op, arg, res, bin, bi, mult>>

\* one pass of the Bos-Coster loop "while len(boscoster) > 1"
BatchLoop ==
    /\ bpc = "loop"
    /\ BagCardinality(heap) > 1
    /\ \E aK1 \in Largest(heap) :
         LET h1 == heap (-) SetToBag({aK1})
         IN  \E aK2 \in Largest(h1) :
               LET h2 == h1 (-) SetToBag({aK2})
                   K2 == pointAdd(ec, aK1[2], aK2[2])
                   a1 == aK1[1] - aK2[1]
                   h3 == IF a1 > 0 THEN h2 (+) SetToBag({<<a1, aK1[2]>>}) ELSE h2
               IN  IF a1 > MaxWeight
                   THEN /\ bpc' = "beyond"
                        /\ UNCHANGED heap
                   ELSE /\ bpc' = "loop"
                        /\ heap' = h3 (+) SetToBag({<<aK2[1], K2>>})
    /\ pass' = 1 - pass
    /\ barith' = TRUE
    /\ UNCHANGED <<ec, hf, op, arg, res, bin, bi, mult>>

\* after the loop: the last heappop, the two multiplications and the comparison
BatchFinish ==
    /\ bpc = "loop"
    /\ BagCardinality(heap) <= 1
    /\ IF heap = EmptyBag
       THEN /\ bpc' = "raised"
            /\ res' = [err |-> "EmptyHeap", val |-> FALSE, arith |-> barith]
            /\ UNCHANGED barith
       ELSE LET aK  == CHOOSE x \in BagToSet(heap) : TRUE
                RHS == pointMult(ec, aK[1], aK[2])
                T   == pointMult(ec, mult, ec.G)
            IN  /\ bpc' = "done"
                /\ res' = [err |-> "", val |-> (T = RHS), arith |-> TRUE]
                /\ barith' = TRUE
    /\ heap' = EmptyBag
    /\ UNCHANGED <<ec, hf, op, arg, bin, bi, mult, pass>>

\* the call has returned or raised; the caller goes on to its next call
Return ==
    /\ op # "none"
    /\ BatchIdle
    /\ op' = "none"
    /\ arg' = NoArg
    /\ res' = NoRes
    /\ ResetBatch
    /\ UNCHANGED <<ec, hf>>

Next ==
    \/ /\ op = "none"
       /\ \E m \in MsgInputs, d \in Keys(ec), k \in Nonces(ec) : Sign(m, d, k)
    \/ /\ op = "sign"
       /\ \E kind \in {"genuine", "negated"} : VerifySigned(kind)
    \/ /\ op = "none"
       /\ \E ssasig \in SigInputs(ec), m \in MsgInputs, Q \in PointInputs(ec) :
              VerifyAny(ssasig, m, Q)
    \/ RecoverSigned
    \/ /\ op = "none"
       /\ \E ssasig \in SigInputs(ec), ebytes \in DigestInputs(ec) :
              RecoverAny(ssasig, ebytes)
    \/ /\ op = "none"
       /\ \E ssasig \in SigInputs(ec) : Parse(ssasig)
    \/ /\ op = "none"
       /\ \E u \in 0..MaxBatch : \E b \in [1..u -> GenuineEntries(ec, hf)] :
              \E entries \in Variants(ec, hf, b) : BatchStart(entries)
    \/ BatchPrep
    \/ BatchLoop
    \/ BatchFinish
    \/ Return

Spec == Init /\ [][Next]_vars

\* the Bos-Coster loop keeps running: while "len(boscoster) > 1" holds the
\* interpreter executes the next pass
FairSpec == Spec /\ WF_vars(BatchLoop)

(***************************************************************************)
(* The claims.                                                             *)
(***************************************************************************)
\* the nonce ecssa_sign worked with in the call arg describes
NonceOf(a) ==
    IF a.k = <<>> THEN rfc6979(int_from_Scalar(ec, a.d), a.m, ec, hf)
    ELSE int_from_Scalar(ec, a.k[1])

\* the challenge e of (r, Q, m) as ecssa_sign and _ecssa_verify compute it
ChallengeOf(r, Q, m) == int_from_hlenbytes(hash_rQm(ec, hf, bytesize(ec), r, Q, m), ec)

\* C1: sign/verify round trip.  Whenever ecssa_verify is called with the
\* signature ecssa_sign returned for (m, d, k), the same m and d*G, on a curve
\* with p = 3 (mod 4), d and k in 1 .. n-1 (k given or derived), it returns True.
C1_RoundTrip ==
    (op = "verify" /\ arg.kind = "genuine") => (res.err = "" /\ res.val = TRUE)

\* C1's case: a round trip in which the parity fix replaced k by n - k and s is 0
C1_Witness ==
    /\ op = "verify"
    /\ arg.kind = "genuine"
    /\ arg.sig[2] = 0
    /\ legendre_symbol(pointMult(ec, NonceOf(arg), ec.G)[2], ec.p) # 1
    /\ res.val = TRUE

\* C2: ecssa_verify never raises.  For every input it returns a boolean, False
\* when _ecssa_verify raises and the value _ecssa_verify returns otherwise.
C2_VerifyNeverRaises ==
    op = "verify" =>
        LET v == _ecssa_verify(arg.sig, arg.m, arg.Q, ec, hf)
        IN  /\ res.err = ""
            /\ res.val \in BOOLEAN
            /\ (v.err # "" => res.val = FALSE)
            /\ (v.err = "" => res.val = v.val)

\* C2's case: sG - eP is the point at infinity, _ecssa_verify raises, and
\* ecssa_verify has returned False
C2_Witness ==
    /\ op = "verify"
    /\ _ecssa_verify(arg.sig, arg.m, arg.Q, ec, hf).err = "Infinite"
    /\ res.err = ""
    /\ res.val = FALSE

(***************************************************************************)
(* The batches the claims are about.                                       *)
(***************************************************************************)
\* a batch of u >= 1 entries, each signed by ecssa_sign for its message and key
GenuineBatch ==
    /\ op = "batch"
    /\ Len(bin) >= 1
    /\ \A j \in DOMAIN bin : bin[j].kind = "genuine"

\* a batch one of whose signatures was replaced by a signature that is valid for
\* another (message, public key) pair and does not verify for the entry's pair
OneBadBatch ==
    /\ op = "batch"
    /\ \E j \in DOMAIN bin :
         /\ bin[j].kind = "other"
         /\ ecssa_verify(bin[j].sig, bin[j].m, bin[j].Q, ec, hf).val = FALSE

\* every weight of the batch is the group order n, a non-zero integer
WeightsAreN == \A j \in DOMAIN bin : bin[j].a = ec.n

\* C3 (as claimed, on the batches whose weights are the non-zero integer n):
\* batch completeness.  A batch of u >= 1 entries, each signed by ecssa_sign for
\* its message and key, makes ecssa_batch_validation return True.
C3_Counterexample ==
    []((GenuineBatch /\ WeightsAreN /\ bpc = "loop") => <>(bpc = "done" /\ res.val = TRUE))

\* C4 (as claimed, on the batches whose weights are the non-zero integer n):
\* batch soundness.  A batch with one signature replaced by a signature valid
\* for a different (message, public key) pair makes ecssa_batch_validation
\* return False.
C4_Counterexample ==
    []((OneBadBatch /\ WeightsAreN /\ bpc = "loop") => <>(bpc = "done" /\ res.val = FALSE))

\* the entry of the batch that carries a malformed signature
MalformedEntries == {j \in DOMAIN bin : bin[j].kind = "malformed"}

\* the exception class Python raises for a malformed signature
MalformedClass(ssasig) == IF Len(ssasig) # 2 THEN "TypeError" ELSE "ValueError"

\* C5 (as claimed): a batch with a malformed signature (r with no y, s outside
\* [0, n), not two components) yields the boolean False, and no error.
C5_Counterexample ==
    (op = "batch" /\ MalformedEntries # {} /\ bpc # "prep") =>
        (bpc = "done" /\ res.err = "" /\ res.val = FALSE)

\* C5 (amended): a batch with a malformed signature never returns a boolean.
\* ecssa_batch_validation has no try/except: it stops at the malformed entry with
\* the error to_ssasig raises for it (TypeError for a signature that is not two
\* components, ValueError for an r with no y or an s outside [0, n)), before any
\* curve arithmetic and with the Bos-Coster loop not started.
C5_BatchRaises ==
    \A j \in MalformedEntries :
        op = "batch" =>
            /\ bpc \in {"prep", "raised"}
            /\ bpc = "prep" => bi <= j
            /\ bpc = "raised" =>
                   /\ bi = j
                   /\ res.err # ""
                   /\ ExcType(res.err) = MalformedClass(bin[j].sig)
                   /\ ~barith

\* C5's case: the second entry's s is n, and the batch has raised ValueError there
C5_Witness ==
    /\ op = "batch"
    /\ Len(bin) = 2
    /\ bin[2].kind = "malformed"
    /\ Len(bin[2].sig) = 2
    /\ bin[2].sig[2] = ec.n
    /\ bpc = "raised"
    /\ res.err = "BadS"

\* the challenge the digest handed to _ecssa_pubkey_recovery reduces to
RecoveryChallenge == int_from_hlenbytes(arg.ebytes, ec)

\* C6 (as claimed): recovery round trip.  For every genuine triple (signature of
\* ecssa_sign(m, d), Q = d*G, m), _ecssa_pubkey_recovery of the signature and the
\* digest hf(bytes(r) || bytes(Q) || m) returns Q.
C6_Counterexample ==
    (op = "recover" /\ arg.kind = "genuine") => (res.err = "" /\ res.val = arg.Q)

\* C6 (amended): for every genuine triple whose challenge e is not 0 modulo n,
\* _ecssa_pubkey_recovery returns exactly Q; when e is 0 modulo n it raises
\* "invalid (zero) challenge e" and returns no key.
C6_RecoveryRoundTrip ==
    (op = "recover" /\ arg.kind = "genuine") =>
        IF RecoveryChallenge = 0
        THEN res.err = "ZeroChallenge"
        ELSE res.err = "" /\ res.val = arg.Q

\* C6's case: a genuine triple, signed with the nonce replaced by n - k, whose
\* challenge is not 0, and the key recovered is Q
C6_Witness ==
    /\ op = "recover"
    /\ arg.kind = "genuine"
    /\ RecoveryChallenge # 0
    /\ legendre_symbol(pointMult(ec, NonceOf(arg), ec.G)[2], ec.p) # 1
    /\ res.err = ""
    /\ res.val = arg.Q
    /\ arg.Q = pointMult(ec, arg.d, ec.G)

\* C7 (as claimed): for every signature (r, s) of ecssa_sign(m, d), ecssa_verify
\* of (r, (n - s) mod n) against m and d*G returns False.
C7_Counterexample ==
    (op = "verify" /\ arg.kind = "negated") => (res.err = "" /\ res.val = FALSE)

\* C7 (amended): for every signature (r, s) of ecssa_sign(m, d) with s # 0,
\* ecssa_verify of (r, n - s) against m and d*G returns False; when s = 0,
\* (n - s) mod n is s, the signature is unchanged and ecssa_verify returns True.
C7_NegatedS ==
    (op = "verify" /\ arg.kind = "negated") =>
        /\ res.err = ""
        /\ arg.sig[2] # 0 => res.val = FALSE
        /\ arg.sig[2] = 0 => res.val = TRUE

\* C7's case: s # 0 is negated, sG - eP has the y that is no quadratic residue,
\* and ecssa_verify has returned False
C7_Witness ==
    /\ op = "verify"
    /\ arg.kind = "negated"
    /\ arg.sig[2] # 0
    /\ _ecssa_verify(arg.sig, arg.m, arg.Q, ec, hf).err = "NotResidue"
    /\ res.val = FALSE

\* r is no x-coordinate of the curve: outside [0, p) or with no y
NoCurveY(r) ==
    \/ r \notin 0..(ec.p - 1)
    \/ ~\E y \in 0..(ec.p - 1) : (y * y) % ec.p = (r * r * r + ec.a * r + ec.b) % ec.p

\* the signatures to_ssasig is to reject
FailsParsing(ssasig) ==
    \/ Len(ssasig) # 2
    \/ NoCurveY(ssasig[1])
    \/ ssasig[2] < 0
    \/ ssasig[2] >= ec.n

\* C8: signature parsing.  to_ssasig raises for every input that is not two
\* components, for every r with no curve y (r >= p included) and for every s
\* outside [0, n), and returns (r, s) unchanged for every other input; hence
\* verification, recovery and batch validation do no curve arithmetic on a
\* signature that fails these checks.
C8_Parsing ==
    /\ op = "parse" =>
           IF FailsParsing(arg.sig) THEN res.err # ""
           ELSE res.err = "" /\ res.val = arg.sig
    /\ (op \in {"verify", "recover"} /\ FailsParsing(arg.sig)) =>
           ~res.arith
    /\ (op = "recover" /\ FailsParsing(arg.sig)) => res.err # ""
    /\ (op = "batch" /\ \E j \in DOMAIN bin : FailsParsing(bin[j].sig)) => ~barith

\* C8's case: to_ssasig is called with r = p and an s in [0, n), and has raised
C8_Witness ==
    /\ op = "parse"
    /\ Len(arg.sig) = 2
    /\ arg.sig[1] = ec.p
    /\ arg.sig[2] \in 0..(ec.n - 1)
    /\ res.err = "NoY"

C10_Counterexample ==
    []((op = "batch" /\ Len(bin) >= 1 /\ bpc = "loop") =>
           <>(BagCardinality(heap) = 1 \/ bpc = "beyond"))

\* the group element sum over the entries of the heap h of weight * point
RECURSIVE WeightedSum(_, _)
WeightedSum(h, S) ==
    IF S = {} THEN Inf
    ELSE LET x == CHOOSE z \in S : TRUE
         IN  pointAdd(ec, pointMult(ec, x[1] * CopiesIn(x, h), x[2]),
                      WeightedSum(h, S \ {x}))

HeapSum == WeightedSum(heap, BagToSet(heap))

\* sum_i a_i * R_i + sum_i (a_i * e_i mod n) * Q_i over the first u entries of
\* the batch, R_i = (r_i, ec.y(r_i)) and e_i the challenge the batch computes
RECURSIVE InitialSum(_)
InitialSum(u) ==
    IF u = 0 THEN Inf
    ELSE LET en == bin[u]
             r  == en.sig[1]
             e  == int_from_hlenbytes(hash_rQm(ec, hf, BatchRLen, r, en.Q, en.m), ec)
         IN  pointAdd(ec, InitialSum(u - 1),
                      pointAdd(ec, pointMult(ec, en.a, <<r, ec_y(ec, r)>>),
                                   pointMult(ec, (en.a * e) % ec.n, en.Q)))

\* C11: Bos-Coster preserves the weighted sum.  At every pass of the loop the
\* sum over the heap of weight * point is the sum over the 2u weighted points
\* the batch started from, whichever of several equal largest weights is popped
\* first; hence, when the loop has ended, the product of the one weight left by
\* the one point left is RHS = sum_i a_i*R_i + sum_i (a_i*e_i mod n)*Q_i, and the
\* value returned is T == RHS for it.
C11_WeightedSumPreserved ==
    /\ (op = "batch" /\ bpc \in {"loop", "beyond"}) => HeapSum = InitialSum(Len(bin))
    /\ (op = "batch" /\ bpc = "done") =>
           res.val = (pointMult(ec, mult, ec.G) = InitialSum(Len(bin)))

\* C11's case: passes have been made, the heap holds two different entries of
\* the largest weight, and its sum is the sum the batch started from
C11_Witness ==
    /\ op = "batch"
    /\ bpc = "loop"
    /\ barith
    /\ Cardinality(Largest(heap)) >= 2
    /\ InitialSum(Len(bin)) # Inf
    /\ HeapSum = InitialSum(Len(bin))

\* the batch has parsed and hashed all its entries and the loop has made no pass:
\* the heap holds the 2u weighted points (a_i, R_i) and (a_i * e_i mod n, Q_i)
BatchPrepared ==
    /\ op = "batch"
    /\ Len(bin) >= 1
    /\ bpc = "loop"
    /\ ~barith

\* C12 (as claimed): the batch derives each entry's challenge as single
\* verification does.  For every curve and every (r, Q, m) the scalar e_i the
\* batch works with is the e that ecssa_sign and _ecssa_verify compute for
\* (r, Q, m), r encoded at the curve's byte size: the weight it puts in the heap
\* beside Q_i is a_i * e mod n.
C12_Counterexample ==
    BatchPrepared =>
        \A j \in DOMAIN bin :
            BagIn(<<(bin[j].a * ChallengeOf(bin[j].sig[1], bin[j].Q, bin[j].m)) % ec.n,
                    bin[j].Q>>, heap)

=============================================================================
